---- MODULE Spec2Model ----
(***************************************************************************)
(* State-machine model of the ELO ladder admin console:                    *)
(*   - the session manager (services/authService: login, logout,           *)
(*     isAuthenticated, isTokenExpired, getTokenRemainingTime),            *)
(*   - the auth effect of App.tsx (one-shot expiry timers, 60 s poll),     *)
(*   - the mutating commands of App.tsx and their refresh refetches.       *)
(*                                                                         *)
(* Time is the millisecond clock of Date.getTime(), scaled: one second is  *)
(* MsPerSec clock units instead of 1000, the token validity is             *)
(* ValiditySecs seconds instead of 3600 and the poll period PollSecs       *)
(* seconds instead of 60.  The ratios the code relies on are kept: the     *)
(* validity and the poll period are whole seconds, the poll period is      *)
(* shorter than the validity, and a second holds more than one clock unit. *)
(*                                                                         *)
(* A localStorage key is a set: {} when the key is absent, {v} when it     *)
(* holds v.  The expiry is written with toString() and read with           *)
(* parseInt(.., 10); on the non-negative integers of the clock that round  *)
(* trip returns the number written, so the key holds the number itself.    *)
(***************************************************************************)
EXTENDS Integers, FiniteSets, Sequences, TLC

\* ---------------------------------------------------------------- bounds
MsPerSec == 2
ValiditySecs == 2
PollSecs == 1
MaxTime == 7
MaxSessions == 1
MaxLoginRequests == 1
MaxInFlight == 1
MaxMatches == 2
MaxAdds == 1
FormChoices == 2
InitialPlayers == 2
MaxPlayerId == 5

MaxRoster == 3

TokenValidityMs == ValiditySecs * MsPerSec
PollIntervalMs == PollSecs * MsPerSec

VARIABLES
  phase,          \* "boot" (page not loaded yet), "mounted", "unmounted"
  now,            \* Date.getTime()
  localStorage,   \* [auth_token, token_expiration]
  isLoggedIn,     \* App state
  authError,      \* App state: "none" (null) or the message shown
  timers,         \* pending setTimeout callbacks of the auth code
  poll,           \* the setInterval of the auth effect
  loginPending,   \* login requests awaiting their response
  nextSession,    \* the token the auth endpoint issues next
  authCall,       \* history: the last isAuthenticated() call
  loginCall,      \* history: the last completed login() call
  noticeCount,    \* history: session-expired notices set since the session began
  mountValid,     \* history: the mount found a valid stored session
  server,         \* the remote API: [matches, nextId, nplayers]
  load,           \* loadData: [pc, res]
  players,        \* App state: the player list shown
  characters,     \* App state: the character list
  error,          \* App state: "none" (null) or the banner shown
  matchHistory,   \* App state: ids of the matches of the recent feed
  filteredMatches,    \* App state: ids of the matches of the last filter result
  hasAppliedFilters,  \* App state
  isFiltering,    \* App state
  filters,        \* App state: the draft filter
  player1,        \* App state: Record Match form, 0 is ''
  player2,        \* App state
  matchResult,    \* App state
  newPlayerName,  \* App state: Add Player form, "" or a name
  procs,          \* the mutating commands and filter queries in flight
  done,           \* history: the command that completed in the last step
  call,           \* history: the last direct call of a service operation
  sortBy,         \* App state: the column the ranking is sorted by
  sortDirection,  \* App state: "asc" or "desc"
  filterLog       \* history: [applied, cleared], the filter values of the
                  \* Apply whose result is shown ({} when there is none), and
                  \* whether Clear has run with no click on Apply since

authVars == <<phase, now, localStorage, isLoggedIn, authError, timers, poll,
              loginPending, nextSession, authCall, loginCall, noticeCount,
              mountValid>>

formVars == <<player1, player2, matchResult, newPlayerName>>

filterVars == <<filteredMatches, hasAppliedFilters, isFiltering, filters>>

dataVars == <<server, load, players, characters, error, matchHistory, filterVars, formVars,
              procs, done>>

sortVars == <<sortBy, sortDirection>>

vars == <<authVars, dataVars, call, sortVars, filterLog>>

\* ------------------------------------------------------- session manager
Val(s) == CHOOSE v \in s : TRUE

Max(a, b) == IF a > b THEN a ELSE b

EmptyStorage == [auth_token |-> {}, token_expiration |-> {}]

Logout_ExpiryOnly(ls) == [ls EXCEPT !.token_expiration = {}]

Logout_TokenOnly(ls) == [ls EXCEPT !.auth_token = {}]

Logout(ls) == [ls EXCEPT !.auth_token = {}, !.token_expiration = {}]

IsTokenExpired_AtExpiry(ls, t) ==
  IF ls.token_expiration = {} THEN TRUE
  ELSE t >= Val(ls.token_expiration)

IsTokenExpired(ls, t) ==
  IF ls.token_expiration = {} THEN TRUE
  ELSE t > Val(ls.token_expiration)

GetToken_NoEviction(ls, t) ==
  IF IsTokenExpired(ls, t)
  THEN [ls |-> ls, ret |-> {}]
  ELSE [ls |-> ls, ret |-> ls.auth_token]

GetToken(ls, t) ==
  IF IsTokenExpired(ls, t)
  THEN [ls |-> Logout(ls), ret |-> {}]
  ELSE [ls |-> ls, ret |-> ls.auth_token]

IsAuthenticated(ls, t) ==
  LET r == GetToken(ls, t) IN [ls |-> r.ls, ret |-> r.ret # {}]

GetTokenRemainingTime(ls, t) ==
  IF ls.token_expiration = {} THEN 0
  ELSE Max(0, (Val(ls.token_expiration) - t) \div MsPerSec)

Login_NoWindow(ls, t, response, tok) ==
  IF response = "ok"
  THEN [ls |-> [ls EXCEPT !.auth_token = {tok}, !.token_expiration = {t}],
        ret |-> "session"]
  ELSE [ls |-> ls, ret |-> "error"]

\* login(): response is "ok" (2xx with a token), "rejected" (non-ok status) or
\* "network" (fetch threw).  Returns the storage and what the caller gets.
Login(ls, t, response, tok) ==
  IF response = "ok"
  THEN [ls |-> [ls EXCEPT !.auth_token = {tok},
                          !.token_expiration = {t + TokenValidityMs}],
        ret |-> "session"]
  ELSE [ls |-> ls, ret |-> "error"]

\* ------------------------------------------------------------ App: auth
\* useState(isAuthenticated()) is evaluated on every render of App.
Render(ls, t) == IsAuthenticated(ls, t).ls

CallRecord(ls, t) ==
  [pre |-> ls, at |-> t, ret |-> IsAuthenticated(ls, t).ret,
   post |-> IsAuthenticated(ls, t).ls]

NoCall == [pre |-> EmptyStorage, at |-> 0 - 1, ret |-> FALSE, post |-> EmptyStorage]

NoLogin ==
  [pre |-> EmptyStorage, at |-> 0 - 1, response |-> "none", ret |-> "none",
   post |-> EmptyStorage]

\* The setTimeout both checkAuth and handleLogin create: delay
\* remainingTime * 1000 when remainingTime > 0.  exp is the expiry the timer
\* was scheduled for (history, the callback does not read it).
ExpiryTimer(ls, t) ==
  LET remainingTime == GetTokenRemainingTime(ls, t) IN
  IF remainingTime > 0
  THEN {[due |-> t + remainingTime * MsPerSec,
         exp |-> Val(ls.token_expiration), token |-> Val(ls.auth_token)]}
  ELSE {}

\* --------------------------------------------------------- remote API
\* A match of the server is [id, winner, loser]; players are 1..nplayers.
\* The ELO and win/loss counters of the player list change with every
\* recorded or annulled match and every added player: ServerVersion counts
\* those, and a player list is identified by the version it was read at.
InitialServer == [matches |-> {}, nextId |-> 1, nplayers |-> InitialPlayers]

\* A ladder on which player 1 has already beaten player 2 once.
PlayedServer ==
  [matches |-> {[id |-> 1, winner |-> 1, loser |-> 2, ver |-> 1]}, nextId |-> 2,
   nplayers |-> InitialPlayers]

\* A ladder on which player 1 and player 2 have beaten each other once.
RivalServer ==
  [matches |-> {[id |-> 1, winner |-> 1, loser |-> 2, ver |-> 1],
                [id |-> 2, winner |-> 2, loser |-> 1, ver |-> 2]},
   nextId |-> 3, nplayers |-> InitialPlayers]

ServerVersion(srv) ==
  (srv.nextId - 1) + ((srv.nextId - 1) - Cardinality(srv.matches))
  + (srv.nplayers - InitialPlayers)

ServerPlayers(srv) == [from |-> "server", ver |-> ServerVersion(srv), n |-> srv.nplayers]

NoPlayers == [from |-> "none", ver |-> 0, n |-> 0]

\* defaultPlayers: four entries, listed here by their ELO.  (A list read from
\* the server is identified by the version it was read at, not by its values.)
DefaultPlayers ==
  [from |-> "default", ver |-> 0, n |-> 4, elo |-> <<1501, 1500, 1500, 1500>>]

DefaultFilters == [limit |-> 50, offset |-> 0, winnerId |-> 0]

\* What a service call got from the API: ok is FALSE when the transport or
\* the status failed.  ids carries a match list, players a player list.
Res(ok, ids, pl) == [ok |-> ok, ids |-> ids, players |-> pl]

NoRes == Res(FALSE, {}, NoPlayers)

\* ----------------------------------------------------- domain services
\* getAuthHeaders(): the bearer token of the Authorization header, {} when the
\* headers hold Content-Type only.  It reads the token key as it is stored.
GetAuthHeaders(ls) == ls.auth_token

FetchPlayers_EmptyOnFailure(srv, ok) ==
  IF ok THEN [data |-> ServerPlayers(srv), error |-> "none"]
  ELSE [data |-> NoPlayers, error |-> "players"]

FetchPlayers(srv, ok) ==
  IF ok THEN [data |-> ServerPlayers(srv), error |-> "none"]
  ELSE [data |-> DefaultPlayers, error |-> "players"]

FetchCharacters(ok) ==
  IF ok THEN [data |-> "server", error |-> "none"]
  ELSE [data |-> "default", error |-> "characters"]

\* Match[] on success, the error string otherwise.
GetRecentMatches(srv, ok) ==
  IF ok THEN Res(TRUE, {m.id : m \in srv.matches}, NoPlayers) ELSE NoRes

\* The query carries winnerId when it is set; limit 50 (more than the server
\* ever holds here) and offset 0 select every match of the result.
FilterMatches(srv, f, ok) ==
  IF ok
  THEN Res(TRUE, {m.id : m \in {x \in srv.matches :
                                  f.winnerId = 0 \/ x.winner = f.winnerId}},
           NoPlayers)
  ELSE NoRes

\* The query string filterMatches() builds from a MatchFilters object, as the
\* set of its parameters.  A field of f is a set: {} when the field is absent
\* (undefined), {v} when it is defined; winnerId 0 is ''.  The string fields,
\* limit and offset are appended under "if (filters.x)", minEloChange under
\* "if (filters.minEloChange !== undefined)".
FilterFields == {"winnerId", "minEloChange", "limit", "offset"}

FilterQuery_TruthyMinElo(f) ==
  UNION {{[name |-> n, value |-> v] : v \in f[n] \ {0}} : n \in FilterFields}

FilterQuery(f) ==
  {[name |-> "winnerId", value |-> v] : v \in {x \in f.winnerId : x # 0}}
    \cup {[name |-> "minEloChange", value |-> v] : v \in f.minEloChange}
    \cup {[name |-> "limit", value |-> v] : v \in {x \in f.limit : x # 0}}
    \cup {[name |-> "offset", value |-> v] : v \in {x \in f.offset : x # 0}}

AnnulMatch_Rethrows(accept) == IF accept THEN "null" ELSE "throws"

\* annulMatch(): null on status 200 or 204, the error string otherwise (the
\* catch block turns a thrown error into its message).
AnnulMatch(accept) == IF accept THEN "null" ELSE "Failed to annul match"

RecordMatchRequest_LoserFromPlayer1(p1, p2, w) ==
  IF p1 = 0 \/ p2 = 0 \/ w = 0 THEN {}
  ELSE {[playerAId |-> w, playerBId |-> IF w = p1 THEN p1 ELSE p2, winnerId |-> w]}

RecordMatchRequest_RejectsOutsider(p1, p2, w) ==
  IF p1 = 0 \/ p2 = 0 \/ w = 0 \/ w \notin {p1, p2} THEN {}
  ELSE {[playerAId |-> w, playerBId |-> IF w = p2 THEN p1 ELSE p2, winnerId |-> w]}

RecordMatchRequest_NoWinnerCheck(p1, p2, w) ==
  IF p1 = 0 \/ p2 = 0 THEN {}
  ELSE {[playerAId |-> w, playerBId |-> IF w = p2 THEN p1 ELSE p2, winnerId |-> w]}

\* recordMatch(): the body of the POST, {} when validation returns
\* 'Invalid match data' before any request.
RecordMatchRequest(p1, p2, w) ==
  IF p1 = 0 \/ p2 = 0 \/ w = 0 THEN {}
  ELSE {[playerAId |-> w, playerBId |-> IF w = p2 THEN p1 ELSE p2, winnerId |-> w]}

\* recordMatch(): the request it sends and the string (or null) it returns.
RecordMatch(p1, p2, w, accept) ==
  LET request == RecordMatchRequest(p1, p2, w) IN
  [request |-> request,
   ret |-> IF request = {} THEN "Invalid match data"
           ELSE IF accept THEN "null" ELSE "Failed to record match"]

\* The server accepting a POST /api/matches, a DELETE /api/matches/{id}, a
\* POST /api/players.  ver is the version of the player data the recorded
\* match brings about.
ServerRecord(srv, req) ==
  [srv EXCEPT !.matches = @ \cup {[id |-> srv.nextId, winner |-> req.playerAId,
                                   loser |-> req.playerBId,
                                   ver |-> ServerVersion(srv) + 1]},
              !.nextId = @ + 1]

ServerAnnul(srv, id) == [srv EXCEPT !.matches = {m \in @ : m.id # id}]

ServerAddPlayer(srv) == [srv EXCEPT !.nplayers = @ + 1]

\* ------------------------------------------------------------ App: data
Slots == 1..MaxInFlight

\* A command in flight: pc is the await it is suspended at, ok whether the
\* server accepted its mutation, applied and f the hasAppliedFilters and
\* filters of the render whose handler was invoked, refM and refP whether the
\* refetch of the match list and of the player list have been issued, req the
\* POST /api/matches awaiting its response ({} when there is none), auth the
\* bearer token of the Authorization header of the mutating request ({} when
\* it was sent without the header).  A read
\* (GET) is served from the server state at the step that delivers its
\* response; a mutation is applied at the step that sends it.
Idle == [kind |-> "idle", pc |-> "", ok |-> FALSE, id |-> 0,
         applied |-> FALSE, f |-> DefaultFilters, refM |-> FALSE, refP |-> FALSE,
         req |-> {}, auth |-> {}]

NoDone ==
  [kind |-> "none", ok |-> FALSE, refM |-> FALSE, refP |-> FALSE, id |-> 0,
   applied |-> FALSE]

NoLoad == [pc |-> "init", playersError |-> FALSE]

loading == load.pc # "done"

FreeSlot == CHOOSE s \in Slots : procs[s].kind = "idle" /\ \A r \in Slots : procs[r].kind = "idle" => s <= r

HasFreeSlot == \E s \in Slots : procs[s].kind = "idle"

\* A state setter of App: it does nothing once App is unmounted.
Upd(new, old) == IF phase = "mounted" THEN new ELSE old

displayMatches == IF hasAppliedFilters THEN filteredMatches ELSE matchHistory

\* No interval is running (none created yet, or cleared by clearInterval).
NoPoll == [active |-> FALSE, due |-> 0, isLoggedIn |-> FALSE]

\* No service operation has been called directly.
NoServiceCall == [fn |-> "none"]

NoFilterLog == [applied |-> {}, cleared |-> FALSE]

StoredSessions ==
  {EmptyStorage} \cup
  {[auth_token |-> {0}, token_expiration |-> {e}] : e \in 0..TokenValidityMs}

Init ==
  /\ phase = "boot"
  /\ now = 0
  /\ localStorage \in StoredSessions
  /\ isLoggedIn = FALSE
  /\ authError = "none"
  /\ timers = {}
  /\ poll = NoPoll
  /\ loginPending = 0
  /\ nextSession = 1
  /\ authCall = NoCall
  /\ loginCall = NoLogin
  /\ noticeCount = 0
  /\ mountValid = FALSE
  /\ server \in {InitialServer, PlayedServer, RivalServer}
  /\ load = NoLoad
  /\ players = NoPlayers
  /\ characters = "none"
  /\ error = "none"
  /\ matchHistory = {}
  /\ filteredMatches = {}
  /\ hasAppliedFilters = FALSE
  /\ isFiltering = FALSE
  /\ filters = DefaultFilters
  /\ player1 = 0
  /\ player2 = 0
  /\ matchResult = 0
  /\ newPlayerName = ""
  /\ procs = [s \in Slots |-> Idle]
  /\ done = NoDone
  /\ call = NoServiceCall
  /\ sortBy = "elo"
  /\ sortDirection = "desc"
  /\ filterLog = NoFilterLog

\* What a step of the session code leaves alone.
DataKept ==
  /\ done' = NoDone
  /\ call' = call
  /\ UNCHANGED <<sortVars, filterLog>>
  /\ UNCHANGED <<server, load, players, characters, error, matchHistory,
                 filterVars, formVars, procs>>

Tick ==
  /\ now < MaxTime
  /\ now' = now + 1
  /\ authCall' = NoCall
  /\ loginCall' = NoLogin
  /\ UNCHANGED <<phase, localStorage, isLoggedIn, authError, timers, poll,
                 loginPending, nextSession, noticeCount, mountValid>>
  /\ DataKept

\* First render (useState initialisers), the auth effect, and the data effect
\* up to the first await of loadData.
Mount ==
  /\ phase = "boot"
  /\ load' = [load EXCEPT !.pc = "players"]
  /\ done' = NoDone
  /\ call' = call
  /\ UNCHANGED <<server, players, characters, error, matchHistory, filterVars,
                 formVars, procs, sortVars, filterLog>>
  /\ LET first == IsAuthenticated(localStorage, now)
         check == IsAuthenticated(first.ls, now)
         timer == IF check.ret THEN ExpiryTimer(check.ls, now) ELSE {}
         late  == check.ret /\ timer = {} /\ IsTokenExpired(check.ls, now)
     IN
     /\ phase' = "mounted"
     /\ isLoggedIn' = (check.ret /\ ~late)
     /\ localStorage' = IF late THEN Logout(check.ls) ELSE check.ls
     /\ timers' = timers \cup timer
     /\ poll' = [active |-> TRUE, due |-> now + PollIntervalMs,
                 isLoggedIn |-> first.ret]
     /\ authCall' = CallRecord(localStorage, now)
     /\ mountValid' = first.ret
  /\ loginCall' = NoLogin
  /\ UNCHANGED <<now, authError, loginPending, nextSession, noticeCount>>

Unmount ==
  /\ phase = "mounted"
  /\ phase' = "unmounted"
  /\ poll' = NoPoll
  /\ authCall' = NoCall
  /\ loginCall' = NoLogin
  /\ UNCHANGED <<now, localStorage, isLoggedIn, authError, timers, loginPending,
                 nextSession, noticeCount, mountValid>>
  /\ DataKept

\* handleLogin up to its await.  blank: the trimmed username or password is empty.
\* The login form is rendered under `!loading && view === 'ladder'`; loadData
\* reads neither the clock nor the session and may finish at the instant of the
\* mount, so the gate removes no behaviour of the session and is left out here.
\* `view` itself is not a variable: switching it is always possible and no
\* handler reads it.
LoginClick(blank) ==
  /\ phase = "mounted"
  /\ ~isLoggedIn
  /\ blank \/ loginPending < MaxLoginRequests
  /\ authError' = IF blank THEN "required" ELSE "none"
  /\ loginPending' = IF blank THEN loginPending ELSE loginPending + 1
  /\ IF authError' # authError
     THEN /\ localStorage' = Render(localStorage, now)
          /\ authCall' = CallRecord(localStorage, now)
     ELSE /\ UNCHANGED localStorage
          /\ authCall' = NoCall
  /\ loginCall' = NoLogin
  /\ UNCHANGED <<phase, now, isLoggedIn, timers, poll, nextSession, noticeCount,
                 mountValid>>
  /\ DataKept

\* login() completes and handleLogin resumes.  After an unmount the state
\* setters do nothing; the storage writes and the setTimeout still happen.
LoginResponse(response) ==
  /\ loginPending > 0
  /\ response = "ok" => nextSession <= MaxSessions
  /\ LET r == Login(localStorage, now, response, nextSession)
         alive == phase = "mounted"
     IN
     /\ loginPending' = loginPending - 1
     /\ loginCall' = [pre |-> localStorage, at |-> now, response |-> response,
                      ret |-> r.ret, post |-> r.ls]
     /\ IF r.ret = "session"
        THEN /\ nextSession' = nextSession + 1
             /\ isLoggedIn' = IF alive THEN TRUE ELSE isLoggedIn
             /\ timers' = timers \cup ExpiryTimer(r.ls, now)
             /\ noticeCount' = 0
             /\ UNCHANGED authError
             /\ IF alive /\ ~isLoggedIn
                THEN /\ localStorage' = Render(r.ls, now)
                     /\ authCall' = CallRecord(r.ls, now)
                ELSE /\ localStorage' = r.ls
                     /\ authCall' = NoCall
        ELSE /\ authError' = IF alive THEN "failed" ELSE authError
             /\ UNCHANGED <<nextSession, isLoggedIn, timers, noticeCount>>
             /\ IF authError' # authError
                THEN /\ localStorage' = Render(r.ls, now)
                     /\ authCall' = CallRecord(r.ls, now)
                ELSE /\ localStorage' = r.ls
                     /\ authCall' = NoCall
  /\ UNCHANGED <<phase, now, poll, mountValid>>
  /\ DataKept

HandleLogout ==
  /\ phase = "mounted"
  /\ isLoggedIn
  /\ localStorage' = Logout(localStorage)
  /\ isLoggedIn' = FALSE
  /\ authCall' = CallRecord(localStorage', now)
  /\ loginCall' = NoLogin
  /\ UNCHANGED <<phase, now, authError, timers, poll, loginPending, nextSession,
                 noticeCount, mountValid>>
  /\ DataKept

\* The callback of a one-shot timer; setTimeout runs it no earlier than due.
TimerFire(tm) ==
  /\ tm \in timers
  /\ now >= tm.due
  /\ timers' = timers \ {tm}
  /\ localStorage' = Logout(localStorage)
  /\ IF phase = "mounted"
     THEN /\ isLoggedIn' = FALSE
          /\ authError' = "expired"
          /\ noticeCount' = noticeCount + 1
          /\ IF isLoggedIn \/ authError # "expired"
             THEN authCall' = CallRecord(localStorage', now)
             ELSE authCall' = NoCall
     ELSE /\ authCall' = NoCall
          /\ UNCHANGED <<isLoggedIn, authError, noticeCount>>
  /\ loginCall' = NoLogin
  /\ UNCHANGED <<phase, now, poll, loginPending, nextSession, mountValid>>
  /\ DataKept

\* The setInterval callback; poll.isLoggedIn is the isLoggedIn of the render
\* that created the effect (the effect has no dependencies).
PollTick ==
  /\ poll.active
  /\ now >= poll.due
  /\ IF IsTokenExpired(localStorage, now)
     THEN /\ localStorage' = Logout(localStorage)
          /\ authError' = IF poll.isLoggedIn THEN "expired" ELSE authError
          /\ noticeCount' = IF poll.isLoggedIn THEN noticeCount + 1 ELSE noticeCount
          /\ isLoggedIn' = FALSE
          /\ poll' = NoPoll
          /\ IF isLoggedIn \/ authError' # authError
             THEN authCall' = CallRecord(localStorage', now)
             ELSE authCall' = NoCall
     ELSE /\ poll' = [poll EXCEPT !.due = now + PollIntervalMs]
          /\ authCall' = NoCall
          /\ UNCHANGED <<localStorage, authError, noticeCount, isLoggedIn>>
  /\ loginCall' = NoLogin
  /\ UNCHANGED <<phase, now, timers, loginPending, nextSession, mountValid>>
  /\ DataKept

\* ---------------------------------------------------------------- data
\* The App state a render shows.
viewState ==
  <<players, characters, error, matchHistory, filteredMatches, hasAppliedFilters,
    isFiltering, filters, player1, player2, matchResult, newPlayerName, loading,
    sortBy, sortDirection>>

\* What a step of the data code does to the session state: nothing, except
\* that a changed App state re-renders App, and the render evaluates
\* isAuthenticated() again.
RenderKept ==
  LET rerender == phase = "mounted" /\ viewState' # viewState IN
  /\ localStorage' = IF rerender THEN Render(localStorage, now) ELSE localStorage
  /\ authCall' = IF rerender THEN CallRecord(localStorage, now) ELSE NoCall
  /\ loginCall' = NoLogin
  /\ call' = call
  /\ UNCHANGED <<phase, now, isLoggedIn, authError, timers, poll, loginPending,
                 nextSession, noticeCount, mountValid>>

\* The same for a handler that neither sorts the ranking nor applies or
\* clears the filters.
SessionKept ==
  /\ UNCHANGED <<sortVars, filterLog>>
  /\ RenderKept

Finished(pr, ok) ==
  [kind |-> pr.kind, ok |-> ok, refM |-> pr.refM, refP |-> pr.refP, id |-> pr.id,
   applied |-> pr.applied]

\* loadData after `await fetchPlayers()`.
LoadPlayersDone(ok) ==
  /\ load.pc = "players"
  /\ LET r == FetchPlayers(server, ok) IN
     /\ players' = Upd(r.data, players)
     /\ error' = IF r.error # "none" THEN Upd(r.error, error) ELSE error
     /\ load' = [pc |-> "characters", playersError |-> r.error # "none"]
  /\ done' = NoDone
  /\ UNCHANGED <<server, characters, matchHistory, filterVars, formVars, procs>>
  /\ SessionKept

\* loadData after `await fetchCharacters()`.
LoadCharactersDone(ok) ==
  /\ load.pc = "characters"
  /\ LET r == FetchCharacters(ok) IN
     /\ characters' = Upd(r.data, characters)
     /\ error' = IF r.error # "none" /\ ~load.playersError
                 THEN Upd(r.error, error) ELSE error
     /\ load' = [load EXCEPT !.pc = "matches"]
  /\ done' = NoDone
  /\ UNCHANGED <<server, players, matchHistory, filterVars, formVars, procs>>
  /\ SessionKept

\* loadData after `await getRecentMatches()`.
LoadMatchesDone(ok) ==
  /\ load.pc = "matches"
  /\ LET r == GetRecentMatches(server, ok) IN
     /\ matchHistory' = IF r.ok THEN Upd(r.ids, matchHistory) ELSE matchHistory
     /\ error' = IF r.ok THEN error ELSE Upd("matches", error)
     /\ load' = [load EXCEPT !.pc = "done"]
  /\ done' = NoDone
  /\ UNCHANGED <<server, players, characters, filterVars, formVars, procs>>
  /\ SessionKept

\* The forms of the ladder view are rendered when !loading and, for these two
\* forms, isLoggedIn.
FormsShown == phase = "mounted" /\ ~loading /\ isLoggedIn

\* The options of a player select: '' and the ids of the player list.
PlayerOptions == 0..(IF players.n < FormChoices THEN players.n ELSE FormChoices)

\* The Record Match button: disabled={!player1 || !player2 || !matchResult}.
RecordButtonEnabled ==
  FormsShown /\ player1 # 0 /\ player2 # 0 /\ matchResult # 0

\* The Add Player button has no disabled attribute.
AddButtonEnabled == FormsShown

SetPlayer1(p) ==
  /\ FormsShown
  /\ p \in PlayerOptions
  /\ player1' = p
  /\ done' = NoDone
  /\ UNCHANGED <<server, load, players, characters, error, matchHistory, filterVars,
                 player2, matchResult, newPlayerName, procs>>
  /\ SessionKept

\* The option of player 2 that equals player 1 is disabled.
SetPlayer2(p) ==
  /\ FormsShown
  /\ p \in PlayerOptions
  /\ p = 0 \/ p # player1
  /\ player2' = p
  /\ done' = NoDone
  /\ UNCHANGED <<server, load, players, characters, error, matchHistory, filterVars,
                 player1, matchResult, newPlayerName, procs>>
  /\ SessionKept

\* The winner select offers '' and the selected players.
SetMatchResult(w) ==
  /\ FormsShown
  /\ w \in {0} \cup ({player1, player2} \ {0})
  /\ matchResult' = w
  /\ done' = NoDone
  /\ UNCHANGED <<server, load, players, characters, error, matchHistory, filterVars,
                 player1, player2, newPlayerName, procs>>
  /\ SessionKept

SetNewPlayerName(name) ==
  /\ FormsShown
  /\ newPlayerName' = name
  /\ done' = NoDone
  /\ UNCHANGED <<server, load, players, characters, error, matchHistory, filterVars,
                 player1, player2, matchResult, procs>>
  /\ SessionKept

\* handleRecordMatch up to `await recordMatch(..)`; the button is disabled
\* while a field of the form is '' and on nothing else.  accept: the server
\* records the match.
RecordClick(accept) ==
  /\ RecordButtonEnabled
  /\ HasFreeSlot
  /\ accept => server.nextId <= MaxMatches
  /\ LET req == RecordMatchRequest(player1, player2, matchResult) IN
     /\ req # {}
     /\ server' = IF accept THEN ServerRecord(server, Val(req)) ELSE server
     /\ procs' = [procs EXCEPT ![FreeSlot] =
                    [Idle EXCEPT !.kind = "record", !.pc = "post", !.ok = accept,
                                 !.req = req,
                                 !.auth = GetAuthHeaders(localStorage)]]
  /\ done' = NoDone
  /\ UNCHANGED <<load, players, characters, error, matchHistory, filterVars, formVars>>
  /\ SessionKept

RecordPosted_NoMatchRefetch(s) ==
  /\ procs[s].kind = "record" /\ procs[s].pc = "post"
  /\ IF procs[s].ok
     THEN /\ procs' = [procs EXCEPT ![s].pc = "players", ![s].refP = TRUE,
                                     ![s].req = {}]
          /\ done' = NoDone
          /\ UNCHANGED error
     ELSE /\ error' = Upd("record", error)
          /\ procs' = [procs EXCEPT ![s] = Idle]
          /\ done' = Finished(procs[s], FALSE)
  /\ UNCHANGED <<server, load, players, characters, matchHistory, filterVars, formVars>>
  /\ SessionKept

\* handleRecordMatch after `await recordMatch(..)`.
RecordPosted(s) ==
  /\ procs[s].kind = "record" /\ procs[s].pc = "post"
  /\ IF procs[s].ok
     THEN /\ procs' = [procs EXCEPT ![s].pc = "recent", ![s].refM = TRUE,
                                     ![s].req = {}]
          /\ done' = NoDone
          /\ UNCHANGED error
     ELSE /\ error' = Upd("record", error)
          /\ procs' = [procs EXCEPT ![s] = Idle]
          /\ done' = Finished(procs[s], FALSE)
  /\ UNCHANGED <<server, load, players, characters, matchHistory, filterVars, formVars>>
  /\ SessionKept

\* handleRecordMatch after `await getRecentMatches()`.
RecordRecent(s, ok) ==
  /\ procs[s].kind = "record" /\ procs[s].pc = "recent"
  /\ LET r == GetRecentMatches(server, ok) IN
     matchHistory' = IF r.ok THEN Upd(r.ids, matchHistory) ELSE matchHistory
  /\ procs' = [procs EXCEPT ![s].pc = "players", ![s].refP = TRUE]
  /\ done' = NoDone
  /\ UNCHANGED <<server, load, players, characters, error, filterVars, formVars>>
  /\ SessionKept

\* handleRecordMatch after `await fetchPlayers()`.
RecordPlayers(s, ok) ==
  /\ procs[s].kind = "record" /\ procs[s].pc = "players"
  /\ LET r == FetchPlayers(server, ok) IN
     /\ players' = Upd(r.data, players)
     /\ error' = IF r.error # "none" THEN Upd(r.error, error) ELSE error
  /\ matchResult' = Upd(0, matchResult)
  /\ procs' = [procs EXCEPT ![s] = Idle]
  /\ done' = Finished(procs[s], TRUE)
  /\ UNCHANGED <<server, load, characters, matchHistory, filterVars, player1, player2,
                 newPlayerName>>
  /\ SessionKept

\* addPlayer up to `await apiAddPlayer(..)`; the button is never disabled.
\* accept: the server creates the player.
AddClick(accept) ==
  /\ AddButtonEnabled
  /\ newPlayerName # ""
  /\ HasFreeSlot
  /\ accept => server.nplayers < InitialPlayers + MaxAdds
  /\ server' = IF accept THEN ServerAddPlayer(server) ELSE server
  /\ procs' = [procs EXCEPT ![FreeSlot] =
                 [Idle EXCEPT !.kind = "add", !.pc = "post", !.ok = accept]]
  /\ done' = NoDone
  /\ UNCHANGED <<load, players, characters, error, matchHistory, filterVars, formVars>>
  /\ SessionKept

AddPosted_ResetsFormOnFailure(s) ==
  /\ procs[s].kind = "add" /\ procs[s].pc = "post"
  /\ IF procs[s].ok
     THEN /\ procs' = [procs EXCEPT ![s].pc = "players", ![s].refP = TRUE]
          /\ done' = NoDone
          /\ UNCHANGED <<error, newPlayerName>>
     ELSE /\ error' = Upd("add", error)
          /\ newPlayerName' = Upd("", newPlayerName)
          /\ procs' = [procs EXCEPT ![s] = Idle]
          /\ done' = Finished(procs[s], FALSE)
  /\ UNCHANGED <<server, load, players, characters, matchHistory, filterVars,
                 player1, player2, matchResult>>
  /\ SessionKept

\* addPlayer after `await apiAddPlayer(..)`.
AddPosted(s) ==
  /\ procs[s].kind = "add" /\ procs[s].pc = "post"
  /\ IF procs[s].ok
     THEN /\ procs' = [procs EXCEPT ![s].pc = "players", ![s].refP = TRUE]
          /\ done' = NoDone
          /\ UNCHANGED error
     ELSE /\ error' = Upd("add", error)
          /\ procs' = [procs EXCEPT ![s] = Idle]
          /\ done' = Finished(procs[s], FALSE)
  /\ UNCHANGED <<server, load, players, characters, matchHistory, filterVars, formVars>>
  /\ SessionKept

\* addPlayer after `await fetchPlayers()`.
AddPlayers(s, ok) ==
  /\ procs[s].kind = "add" /\ procs[s].pc = "players"
  /\ LET r == FetchPlayers(server, ok) IN
     /\ players' = Upd(r.data, players)
     /\ error' = IF r.error # "none" THEN Upd(r.error, error) ELSE error
  /\ newPlayerName' = Upd("", newPlayerName)
  /\ procs' = [procs EXCEPT ![s] = Idle]
  /\ done' = Finished(procs[s], TRUE)
  /\ UNCHANGED <<server, load, characters, matchHistory, filterVars, player1, player2,
                 matchResult>>
  /\ SessionKept

\* handleAnnulMatch, confirmed, up to `await annulMatch(id)`.  The Annul
\* button is in each row of displayMatches when isLoggedIn.  accept: the server
\* annuls the match.
AnnulClick(id, accept) ==
  /\ phase = "mounted" /\ isLoggedIn
  /\ id \in displayMatches
  /\ HasFreeSlot
  /\ accept => id \in {m.id : m \in server.matches}
  /\ server' = IF accept THEN ServerAnnul(server, id) ELSE server
  /\ procs' = [procs EXCEPT ![FreeSlot] =
                 [Idle EXCEPT !.kind = "annul", !.pc = "post", !.ok = accept,
                              !.id = id, !.applied = hasAppliedFilters,
                              !.f = filters,
                              !.auth = GetAuthHeaders(localStorage)]]
  /\ done' = NoDone
  /\ UNCHANGED <<load, players, characters, error, matchHistory, filterVars, formVars>>
  /\ SessionKept

\* handleAnnulMatch after `await annulMatch(id)`.
AnnulDeleted(s) ==
  /\ procs[s].kind = "annul" /\ procs[s].pc = "post"
  /\ IF procs[s].ok
     THEN /\ procs' = [procs EXCEPT ![s].pc = "recent", ![s].refM = TRUE]
          /\ done' = NoDone
          /\ UNCHANGED error
     ELSE /\ error' = Upd("annul", error)
          /\ procs' = [procs EXCEPT ![s] = Idle]
          /\ done' = Finished(procs[s], FALSE)
  /\ UNCHANGED <<server, load, players, characters, matchHistory, filterVars, formVars>>
  /\ SessionKept

\* handleAnnulMatch after `await getRecentMatches()`.
AnnulRecent(s, ok) ==
  /\ procs[s].kind = "annul" /\ procs[s].pc = "recent"
  /\ LET r == GetRecentMatches(server, ok) IN
     matchHistory' = IF r.ok THEN Upd(r.ids, matchHistory) ELSE matchHistory
  /\ procs' = IF procs[s].applied
              THEN [procs EXCEPT ![s].pc = "filter"]
              ELSE [procs EXCEPT ![s].pc = "players", ![s].refP = TRUE]
  /\ done' = NoDone
  /\ UNCHANGED <<server, load, players, characters, error, filterVars, formVars>>
  /\ SessionKept

\* handleAnnulMatch after `await filterMatches(filters)`.
AnnulFiltered(s, ok) ==
  /\ procs[s].kind = "annul" /\ procs[s].pc = "filter"
  /\ LET r == FilterMatches(server, procs[s].f, ok) IN
     filteredMatches' = IF r.ok THEN Upd(r.ids, filteredMatches) ELSE filteredMatches
  /\ procs' = [procs EXCEPT ![s].pc = "players", ![s].refP = TRUE]
  /\ done' = NoDone
  /\ UNCHANGED <<server, load, players, characters, error, matchHistory,
                 hasAppliedFilters, isFiltering, filters, formVars>>
  /\ SessionKept

\* handleAnnulMatch after `await fetchPlayers()`.
AnnulPlayers(s, ok) ==
  /\ procs[s].kind = "annul" /\ procs[s].pc = "players"
  /\ LET r == FetchPlayers(server, ok) IN
     /\ players' = Upd(r.data, players)
     /\ error' = IF r.error # "none" THEN Upd(r.error, error) ELSE error
  /\ procs' = [procs EXCEPT ![s] = Idle]
  /\ done' = Finished(procs[s], TRUE)
  /\ UNCHANGED <<server, load, characters, matchHistory, filterVars, formVars>>
  /\ SessionKept

\* updateFilter('winnerId', value); '' becomes undefined (0).
UpdateFilter(w) ==
  /\ phase = "mounted"
  /\ w \in PlayerOptions
  /\ filters' = [filters EXCEPT !.winnerId = w]
  /\ done' = NoDone
  /\ UNCHANGED <<server, load, players, characters, error, matchHistory,
                 filteredMatches, hasAppliedFilters, isFiltering, formVars, procs>>
  /\ SessionKept

\* handleApplyFilters up to `await filterMatches(filters)`; the button is
\* disabled while isFiltering.
ApplyClick ==
  /\ phase = "mounted"
  /\ ~isFiltering
  /\ HasFreeSlot
  /\ isFiltering' = TRUE
  /\ procs' = [procs EXCEPT ![FreeSlot] =
                 [Idle EXCEPT !.kind = "apply", !.pc = "filter", !.f = filters]]
  /\ done' = NoDone
  /\ filterLog' = [filterLog EXCEPT !.cleared = FALSE]
  /\ UNCHANGED <<server, load, players, characters, error, matchHistory,
                 filteredMatches, hasAppliedFilters, filters, formVars, sortVars>>
  /\ RenderKept

\* handleApplyFilters after `await filterMatches(filters)`.
ApplyDone(s, ok) ==
  /\ procs[s].kind = "apply" /\ procs[s].pc = "filter"
  /\ LET r == FilterMatches(server, procs[s].f, ok) IN
     /\ filteredMatches' = IF r.ok THEN Upd(r.ids, filteredMatches) ELSE filteredMatches
     /\ hasAppliedFilters' = IF r.ok THEN Upd(TRUE, hasAppliedFilters)
                             ELSE hasAppliedFilters
     /\ error' = IF r.ok THEN error ELSE Upd("filter", error)
     /\ done' = Finished(procs[s], r.ok)
     /\ filterLog' = IF r.ok /\ phase = "mounted"
                     THEN [filterLog EXCEPT !.applied = {procs[s].f}]
                     ELSE filterLog
  /\ isFiltering' = Upd(FALSE, isFiltering)
  /\ procs' = [procs EXCEPT ![s] = Idle]
  /\ UNCHANGED <<server, load, players, characters, matchHistory, filters, formVars,
                 sortVars>>
  /\ RenderKept

HandleClearFilters_KeepsDraft ==
  /\ phase = "mounted"
  /\ filters' = filters
  /\ filteredMatches' = {}
  /\ hasAppliedFilters' = FALSE
  /\ isFiltering' = FALSE
  /\ done' = [NoDone EXCEPT !.kind = "clear", !.applied = hasAppliedFilters]
  /\ filterLog' = [applied |-> {}, cleared |-> TRUE]
  /\ UNCHANGED <<server, load, players, characters, error, matchHistory, formVars,
                 procs, sortVars>>
  /\ RenderKept

\* handleClearFilters; done.applied is the hasAppliedFilters it found.
HandleClearFilters ==
  /\ phase = "mounted"
  /\ filters' = [limit |-> 50, offset |-> 0, winnerId |-> 0]
  /\ filteredMatches' = {}
  /\ hasAppliedFilters' = FALSE
  /\ isFiltering' = FALSE
  /\ done' = [NoDone EXCEPT !.kind = "clear", !.applied = hasAppliedFilters]
  /\ filterLog' = [applied |-> {}, cleared |-> TRUE]
  /\ UNCHANGED <<server, load, players, characters, error, matchHistory, formVars,
                 procs, sortVars>>
  /\ RenderKept

\* handleSort(column), bound to the ELO, MP, W and L headers of the ranking
\* table, which the ladder view shows once loading is over.
SortColumns == {"elo", "matchesPlayed", "wins", "losses"}

HandleSort_KeepsDirection(column) ==
  /\ phase = "mounted" /\ ~loading
  /\ IF sortBy = column
     THEN /\ sortDirection' = IF sortDirection = "asc" THEN "desc" ELSE "asc"
          /\ sortBy' = sortBy
     ELSE /\ sortBy' = column
          /\ sortDirection' = sortDirection
  /\ done' = NoDone
  /\ UNCHANGED <<server, load, players, characters, error, matchHistory, filterVars,
                 formVars, procs, filterLog>>
  /\ RenderKept

HandleSort(column) ==
  /\ phase = "mounted" /\ ~loading
  /\ IF sortBy = column
     THEN /\ sortDirection' = IF sortDirection = "asc" THEN "desc" ELSE "asc"
          /\ sortBy' = sortBy
     ELSE /\ sortBy' = column
          /\ sortDirection' = "desc"
  /\ done' = NoDone
  /\ UNCHANGED <<server, load, players, characters, error, matchHistory, filterVars,
                 formVars, procs, filterLog>>
  /\ RenderKept

\* The comparator of sortedPlayers: negative when a sorts before b.
Compare_IgnoresDirection(a, b, by, dir) == a[by] - b[by]

Compare(a, b, by, dir) ==
  IF dir = "asc" THEN a[by] - b[by] ELSE b[by] - a[by]

\* Array.prototype.sort is stable: x, which followed the elements of sorted
\* in the array, goes behind those that compare equal to it.
RECURSIVE InsertSorted(_, _, _, _)
InsertSorted(x, sorted, by, dir) ==
  IF sorted = <<>> THEN <<x>>
  ELSE IF Compare(Head(sorted), x, by, dir) <= 0
       THEN <<Head(sorted)>> \o InsertSorted(x, Tail(sorted), by, dir)
       ELSE <<x>> \o sorted

RECURSIVE SortArray(_, _, _)
SortArray(list, by, dir) ==
  IF list = <<>> THEN <<>>
  ELSE InsertSorted(list[Len(list)],
                    SortArray(SubSeq(list, 1, Len(list) - 1), by, dir), by, dir)

\* sortedPlayers = [...players].sort(..): the sorted copy, and the players
\* array as the expression leaves it.
SortedPlayers(list, by, dir) ==
  [sortedPlayers |-> SortArray(list, by, dir), players |-> list]

\* Player lists of up to MaxRoster players; the id of a player is its place
\* in the list, the other fields are those of one of four players.
PlayerStats ==
  {[elo |-> 1500, matchesPlayed |-> 2, wins |-> 1, losses |-> 1],
   [elo |-> 1600, matchesPlayed |-> 2, wins |-> 2, losses |-> 0],
   [elo |-> 1400, matchesPlayed |-> 3, wins |-> 0, losses |-> 3],
   [elo |-> 1500, matchesPlayed |-> 0, wins |-> 0, losses |-> 0]}

PlayerLists ==
  UNION {{[i \in 1..n |-> [id |-> i, elo |-> st[i].elo,
                            matchesPlayed |-> st[i].matchesPlayed,
                            wins |-> st[i].wins, losses |-> st[i].losses]] :
            st \in [1..n -> PlayerStats]} : n \in 0..MaxRoster}

\* ------------------------------------------- direct calls of the services
\* The service operations called on their own, as a caller other than App may
\* call them: the arguments are chosen freely, App is left as it is.
ServiceFrame ==
  /\ authCall' = NoCall
  /\ loginCall' = NoLogin
  /\ done' = NoDone
  /\ UNCHANGED <<phase, now, isLoggedIn, authError, timers, poll, loginPending,
                 nextSession, noticeCount, mountValid, server, load, players,
                 characters, error, matchHistory, filterVars, formVars, procs,
                 sortVars, filterLog>>

PlayerIds == 0..MaxPlayerId

\* recordMatch(player1Id, player2Id, winnerId); 0 is ''.
ServiceRecordMatch(p1, p2, w, accept) ==
  /\ LET r == RecordMatch(p1, p2, w, accept) IN
     call' = [fn |-> "recordMatch", p1 |-> p1, p2 |-> p2, w |-> w,
              request |-> r.request, ret |-> r.ret]
  /\ UNCHANGED localStorage
  /\ ServiceFrame

\* login(credentials).  blank: the username or the password is empty or
\* whitespace only.  login() reads neither: it posts the credentials as they
\* are, so a request is sent in every call.
ServiceLogin(blank, response) ==
  /\ LET r == Login(localStorage, now, response, nextSession) IN
     /\ localStorage' = r.ls
     /\ call' = [fn |-> "login", blank |-> blank, sent |-> TRUE,
                 ret |-> r.ret, pre |-> localStorage]
  /\ ServiceFrame

ServiceFetchPlayers(ok) ==
  /\ call' = [fn |-> "fetchPlayers", ok |-> ok, ret |-> FetchPlayers(server, ok)]
  /\ UNCHANGED localStorage
  /\ ServiceFrame

ServiceFetchCharacters(ok) ==
  /\ call' = [fn |-> "fetchCharacters", ok |-> ok, ret |-> FetchCharacters(ok)]
  /\ UNCHANGED localStorage
  /\ ServiceFrame

ServiceGetRecentMatches(ok) ==
  /\ call' = [fn |-> "getRecentMatches", ok |-> ok,
              ret |-> GetRecentMatches(server, ok)]
  /\ UNCHANGED localStorage
  /\ ServiceFrame

\* The MatchFilters objects handed to filterMatches.
FilterInputs ==
  [winnerId : {{}, {0}, {1}}, minEloChange : {{}, {0}, {10}},
   limit : {{}, {0}, {50}}, offset : {{}, {0}, {1}}]

ServiceFilterMatches(f, ok) ==
  /\ LET query == FilterQuery(f)
         w == {p.value : p \in {q \in query : q.name = "winnerId"}} IN
     call' = [fn |-> "filterMatches", ok |-> ok, f |-> f, query |-> query,
              ret |-> FilterMatches(server,
                        [limit |-> 50, offset |-> 0,
                         winnerId |-> IF w = {} THEN 0 ELSE Val(w)], ok)]
  /\ UNCHANGED localStorage
  /\ ServiceFrame

ServiceAnnulMatch(id, accept) ==
  /\ call' = [fn |-> "annulMatch", id |-> id, ok |-> accept,
              ret |-> AnnulMatch(accept)]
  /\ UNCHANGED localStorage
  /\ ServiceFrame

NextService ==
  \/ \E p1, p2, w \in PlayerIds : \E accept \in BOOLEAN :
       ServiceRecordMatch(p1, p2, w, accept)
  \/ \E ok \in BOOLEAN : ServiceGetRecentMatches(ok)
  \/ \E f \in FilterInputs : \E ok \in BOOLEAN : ServiceFilterMatches(f, ok)
  \/ \E id \in 1..MaxMatches : \E accept \in BOOLEAN : ServiceAnnulMatch(id, accept)
  \/ \E blank \in BOOLEAN : \E response \in {"ok", "rejected"} :
       ServiceLogin(blank, response)
  \/ \E ok \in BOOLEAN : ServiceFetchPlayers(ok)
  \/ \E ok \in BOOLEAN : ServiceFetchCharacters(ok)

\* The services on their own: no App is mounted.
InitService == Init /\ server = InitialServer

SpecService == InitService /\ [][NextService]_vars

\* A render of the ranking for the player list `list`.
SortPlayers(list) ==
  /\ LET r == SortedPlayers(list, sortBy, sortDirection) IN
     call' = [fn |-> "sortedPlayers", players |-> list, sortBy |-> sortBy,
              sortDirection |-> sortDirection, ret |-> r.sortedPlayers,
              after |-> r.players]
  /\ UNCHANGED localStorage
  /\ ServiceFrame

\* The ranking table: a page opened with no session, loaded, whose column
\* headers are clicked, rendered for every player list.
NextSort ==
  \/ Mount
  \/ LoadPlayersDone(TRUE)
  \/ LoadCharactersDone(TRUE)
  \/ LoadMatchesDone(TRUE)
  \/ \E column \in SortColumns : HandleSort(column)
  \/ \E list \in PlayerLists : SortPlayers(list)

InitSort == Init /\ server = InitialServer /\ localStorage = EmptyStorage

SpecSort == InitSort /\ [][NextSort]_vars

NextAuth ==
  \/ Tick
  \/ Mount
  \/ Unmount
  \/ \E blank \in BOOLEAN : LoginClick(blank)
  \/ \E response \in {"ok", "rejected", "network"} : LoginResponse(response)
  \/ HandleLogout
  \/ \E tm \in timers : TimerFire(tm)
  \/ PollTick

NextLoad ==
  \/ \E ok \in BOOLEAN : LoadPlayersDone(ok)
  \/ \E ok \in BOOLEAN : LoadCharactersDone(ok)
  \/ \E ok \in BOOLEAN : LoadMatchesDone(ok)

NextForm ==
  \/ \E p \in 0..FormChoices : SetPlayer1(p)
  \/ \E p \in 0..FormChoices : SetPlayer2(p)
  \/ \E w \in 0..FormChoices : SetMatchResult(w)
  \/ \E name \in {"", "n"} : SetNewPlayerName(name)

NextRecord ==
  \/ \E accept \in BOOLEAN : RecordClick(accept)
  \/ \E s \in Slots : RecordPosted(s)
  \/ \E s \in Slots, ok \in BOOLEAN : RecordRecent(s, ok)
  \/ \E s \in Slots, ok \in BOOLEAN : RecordPlayers(s, ok)

NextAdd ==
  \/ \E accept \in BOOLEAN : AddClick(accept)
  \/ \E s \in Slots : AddPosted(s)
  \/ \E s \in Slots, ok \in BOOLEAN : AddPlayers(s, ok)

NextAnnul ==
  \/ \E id \in 1..MaxMatches, accept \in BOOLEAN : AnnulClick(id, accept)
  \/ \E s \in Slots : AnnulDeleted(s)
  \/ \E s \in Slots, ok \in BOOLEAN : AnnulRecent(s, ok)
  \/ \E s \in Slots, ok \in BOOLEAN : AnnulPlayers(s, ok)

NextAnnulFiltered == \E s \in Slots, ok \in BOOLEAN : AnnulFiltered(s, ok)

NextFilter ==
  \/ \E w \in 0..FormChoices : UpdateFilter(w)
  \/ ApplyClick
  \/ \E s \in Slots, ok \in BOOLEAN : ApplyDone(s, ok)
  \/ HandleClearFilters

\* The session code alone, on an empty ladder: the data of the page stays as
\* it is at the mount.
InitAuth == Init /\ server = InitialServer

SpecAuth == InitAuth /\ [][NextAuth]_vars

\* A session stored by an earlier visit that stays valid while the clock is
\* stopped.
ValidSession == [auth_token |-> {0}, token_expiration |-> {TokenValidityMs}]

\* The commands of the ladder view with the clock stopped, on a page opened
\* with a valid session and an empty ladder; the user records matches between
\* player 1 and player 2.
InitData == Init /\ server = InitialServer /\ localStorage = ValidSession

NextData ==
  \/ Mount
  \/ HandleLogout
  \/ NextLoad
  \/ SetPlayer1(1)
  \/ SetPlayer2(2)
  \/ \E w \in 1..FormChoices : SetMatchResult(w)
  \/ SetNewPlayerName("n")
  \/ NextRecord
  \/ NextAdd
  \/ NextAnnul

SpecData == InitData /\ [][NextData]_vars

\* The match history view with the clock stopped, on a page opened with a
\* valid session and a ladder that holds one match.
InitHistory == Init /\ server = PlayedServer /\ localStorage = ValidSession

NextHistory ==
  \/ Mount
  \/ HandleLogout
  \/ NextLoad
  \/ NextAnnul
  \/ NextAnnulFiltered
  \/ NextFilter

SpecHistory == InitHistory /\ [][NextHistory]_vars

\* The session while matches are recorded: a page opened with any stored
\* session, the clock running, the user recording matches between player 1
\* and player 2.
InitGate == Init /\ server = InitialServer

NextGate ==
  \/ Tick
  \/ Mount
  \/ \E tm \in timers : TimerFire(tm)
  \/ PollTick
  \/ LoadPlayersDone(TRUE)
  \/ LoadCharactersDone(TRUE)
  \/ LoadMatchesDone(TRUE)
  \/ SetPlayer1(1)
  \/ SetPlayer2(2)
  \/ SetMatchResult(1)
  \/ NextRecord

SpecGate == InitGate /\ [][NextGate]_vars

\* The match history view of a ladder with two matches, after an initial load
\* that succeeded.
InitDraft == Init /\ server = RivalServer /\ localStorage = ValidSession

NextDraft ==
  \/ Mount
  \/ LoadPlayersDone(TRUE)
  \/ LoadCharactersDone(TRUE)
  \/ LoadMatchesDone(TRUE)
  \/ NextAnnul
  \/ NextAnnulFiltered
  \/ NextFilter

SpecDraft == InitDraft /\ [][NextDraft]_vars

\* The Record Match form with every choice its selects offer, after an
\* initial load that succeeded.
NextRecordForm ==
  \/ Mount
  \/ LoadPlayersDone(TRUE)
  \/ LoadCharactersDone(TRUE)
  \/ LoadMatchesDone(TRUE)
  \/ \E p \in PlayerOptions : SetPlayer1(p)
  \/ \E p \in PlayerOptions : SetPlayer2(p)
  \/ \E w \in PlayerOptions : SetMatchResult(w)
  \/ NextRecord

SpecForm == InitData /\ [][NextRecordForm]_vars

Next ==
  \/ NextService
  \/ NextSort
  \/ NextAuth
  \/ NextLoad
  \/ NextForm
  \/ NextRecord
  \/ NextAdd
  \/ NextAnnul
  \/ NextAnnulFiltered
  \/ NextFilter

Spec == Init /\ [][Next]_vars

\* ------------------------------------------------------------- properties
\* C1: every isAuthenticated() call returns true exactly when a token is
\* stored and the clock is not past the stored expiry; when the expiry has
\* passed or none is stored the call leaves both keys absent and returns
\* false; otherwise it leaves the storage as it was.
C1_IsAuthenticated ==
  authCall.at >= 0 =>
    LET pre == authCall.pre
        lapsed == pre.token_expiration = {} \/ authCall.at > Val(pre.token_expiration)
    IN /\ authCall.ret = (pre.auth_token # {} /\ ~lapsed)
       /\ lapsed => (authCall.post = EmptyStorage /\ ~authCall.ret)
       /\ ~lapsed => authCall.post = pre

\* A call found a stored token whose expiry had passed, with no logout before.
C1_Witness ==
  /\ authCall.at >= 0
  /\ authCall.pre.auth_token # {}
  /\ authCall.pre.token_expiration # {}
  /\ authCall.at > Val(authCall.pre.token_expiration)
  /\ ~authCall.ret
  /\ authCall.post = EmptyStorage

\* C2: a login the server accepts stores the token and the expiry
\* login instant + validity and returns the session; any other login returns
\* an error and leaves both keys as they were.
C2_Login ==
  loginCall.at >= 0 =>
    /\ loginCall.response = "ok" =>
         /\ loginCall.ret = "session"
         /\ loginCall.post.auth_token # {}
         /\ loginCall.post.token_expiration = {loginCall.at + TokenValidityMs}
    /\ loginCall.response # "ok" =>
         /\ loginCall.ret = "error"
         /\ loginCall.post = loginCall.pre

\* A login was accepted after the clock had advanced.
C2_Witness ==
  /\ loginCall.at > 0
  /\ loginCall.ret = "session"
  /\ localStorage.token_expiration = {loginCall.at + TokenValidityMs}

\* C3 (as claimed): every one-shot timer scheduled for a session is due
\* exactly at the expiry stored for that session.
C3_TimerAtExpiry == \A tm \in timers : tm.due = tm.exp

\* C4 (as claimed): once a timer or the poll has run for an expiry the client
\* is logged out, and the session-expired notice is set at most once for it.
C4_Converge ==
  /\ noticeCount <= 1
  /\ (phase = "mounted" /\ noticeCount >= 1) =>
       (localStorage = EmptyStorage /\ ~isLoggedIn)

\* C5 (as claimed): while App is mounted the poll keeps running.
C5_PollKeepsRunning == phase = "mounted" => poll.active

\* C6 (as claimed): after the unmount no expiry timer and no poll remains.
C6_NoTimerAfterUnmount == phase = "unmounted" => (timers = {} /\ ~poll.active)

\* C7: when the mount finds no valid stored session, then until a login
\* succeeds both keys are absent and isLoggedIn is false, from the first
\* rendered state on.
C7_NoFlash ==
  (phase = "mounted" /\ ~mountValid /\ nextSession = 1) =>
    (~isLoggedIn /\ localStorage = EmptyStorage)

\* The mount has just evicted a stored, expired session.
C7_Witness ==
  /\ phase = "mounted"
  /\ ~mountValid
  /\ authCall.at >= 0
  /\ authCall.pre.auth_token # {}
  /\ ~isLoggedIn
  /\ nextSession = 1

\* C8 (as claimed): while a recordMatch or addPlayer command is in flight,
\* the control that starts it is disabled.
C8_ControlDisabled ==
  \A s \in Slots :
    /\ procs[s].kind = "record" => ~RecordButtonEnabled
    /\ procs[s].kind = "add" => ~AddButtonEnabled

\* C9 (as claimed): every successful mutating command has issued the refetch
\* of the match list and of the player list when it completes.
C9_AllRefetchBoth ==
  (done.kind \in {"record", "add", "annul"} /\ done.ok) => (done.refM /\ done.refP)

\* C9 (amended): a successful recordMatch or annulMatch has issued both
\* refetches when it completes; a successful addPlayer has issued the refetch
\* of the player list and none of the match list.
C9_Refetch ==
  /\ (done.kind \in {"record", "annul"} /\ done.ok) => (done.refM /\ done.refP)
  /\ (done.kind = "add" /\ done.ok) => (done.refP /\ ~done.refM)

\* A successful addPlayer has just completed.
C9_Witness == done.kind = "add" /\ done.ok /\ players.from = "server"

\* C10 (as claimed): when an annulMatch started with filters applied has
\* completed successfully, its id is in neither matchHistory nor
\* filteredMatches.
C10_AnnulledGone ==
  (done.kind = "annul" /\ done.ok /\ done.applied) =>
    (done.id \notin matchHistory /\ done.id \notin filteredMatches)

\* C12: for non-empty p1 # p2 and a winner among them, the request recordMatch
\* sends names the given winner and names the other player as the loser.
C12_RecordMatchLoser ==
  (/\ call.fn = "recordMatch"
   /\ call.p1 # 0 /\ call.p2 # 0 /\ call.p1 # call.p2
   /\ call.w \in {call.p1, call.p2}) =>
    LET other == IF call.w = call.p1 THEN call.p2 ELSE call.p1 IN
    call.request = {[playerAId |-> call.w, playerBId |-> other, winnerId |-> call.w]}

\* recordMatch(2, 5, 5) has sent a request with loser 2.
C12_Witness ==
  /\ call.fn = "recordMatch"
  /\ call.p1 = 2 /\ call.p2 = 5 /\ call.w = 5
  /\ \E r \in call.request : r.winnerId = 5 /\ r.playerBId = 2

\* C13: recordMatch with an empty player 1, player 2 or winner returns
\* 'Invalid match data' and sends no request.
C13_InvalidMatchData ==
  (call.fn = "recordMatch" /\ (call.p1 = 0 \/ call.p2 = 0 \/ call.w = 0)) =>
    (call.ret = "Invalid match data" /\ call.request = {})

\* recordMatch was called with both players and no winner.
C13_Witness ==
  /\ call.fn = "recordMatch"
  /\ call.p1 # 0 /\ call.p2 # 0 /\ call.w = 0
  /\ call.ret = "Invalid match data"

\* C14 (as claimed): login with a blank username or password returns an error,
\* sends no request and leaves the storage as it was.
C14_BlankLogin ==
  (call.fn = "login" /\ call.blank) =>
    (~call.sent /\ call.ret = "error" /\ localStorage = call.pre)

\* C20: a failed fetch makes fetchPlayers return the four-entry fallback
\* roster (ELO 1501, 1500, 1500, 1500) and fetchCharacters its built-in
\* roster, each with an error string; a successful one returns the server's
\* list and no error.
C20_Fallback ==
  /\ call.fn = "fetchPlayers" =>
       IF call.ok
       THEN /\ call.ret.data.from = "server"
            /\ call.ret.data.n = server.nplayers
            /\ call.ret.error = "none"
       ELSE /\ call.ret.data.from = "default"
            /\ call.ret.data.n = 4
            /\ call.ret.data.elo = <<1501, 1500, 1500, 1500>>
            /\ call.ret.error # "none"
  /\ call.fn = "fetchCharacters" =>
       IF call.ok
       THEN call.ret.data = "server" /\ call.ret.error = "none"
       ELSE call.ret.data = "default" /\ call.ret.error # "none"

\* fetchPlayers has failed and returned the fallback roster.
C20_Witness ==
  /\ call.fn = "fetchPlayers"
  /\ ~call.ok
  /\ call.ret.data = DefaultPlayers

\* C11 (as claimed): every match-creation request App sends names as winner
\* one of the two players selected in the form when it is sent, and as loser
\* the other selected player.
C11_RequestFromForm ==
  [][\A accept \in BOOLEAN : RecordClick(accept) =>
       \A s \in Slots : \A r \in procs'[s].req :
         \/ r.winnerId = player1 /\ r.playerBId = player2
         \/ r.winnerId = player2 /\ r.playerBId = player1]_vars

\* C15: every logout() (the Logout button, a one-shot timer, a poll tick that
\* finds the session expired) leaves both keys absent whatever was stored,
\* also when they were absent already, and a further logout() changes nothing;
\* so two of them leave the same storage in either order.
C15_LogoutIdempotent ==
  [][/\ (HandleLogout \/ \E tm \in timers : TimerFire(tm)) =>
          (localStorage' = EmptyStorage /\ Logout(localStorage') = localStorage')
     /\ (PollTick /\ IsTokenExpired(localStorage, now)) =>
          (localStorage' = EmptyStorage /\ Logout(localStorage') = localStorage')]_vars

\* The one-shot timer and the poll have both logged the same session out.
C15_Witness ==
  /\ noticeCount >= 2
  /\ localStorage = EmptyStorage
  /\ timers = {}
  /\ ~poll.active

\* C16 (as claimed): while a query of Apply Filters is in flight isFiltering is
\* true; when it completes isFiltering is false; if it succeeded the filtered
\* list is its result and hasAppliedFilters is true; if it failed the error is
\* shown and the filtered list and hasAppliedFilters are as they were.
C16_ApplyFilters ==
  [][/\ (\E s \in Slots : procs'[s].kind = "apply") => isFiltering'
     /\ \A s \in Slots : \A ok \in BOOLEAN : ApplyDone(s, ok) =>
          /\ ~isFiltering'
          /\ IF ok
             THEN /\ filteredMatches' = FilterMatches(server, procs[s].f, TRUE).ids
                  /\ hasAppliedFilters'
             ELSE /\ error' = "filter"
                  /\ filteredMatches' = filteredMatches
                  /\ hasAppliedFilters' = hasAppliedFilters]_vars

\* C17: Clear Filters leaves the filters at {limit: 50, offset: 0} with no
\* other field, an empty filtered list and hasAppliedFilters false, and the
\* matches displayed are the unfiltered match history.
C17_ClearFilters ==
  done.kind = "clear" =>
    /\ filters = [limit |-> 50, offset |-> 0, winnerId |-> 0]
    /\ filteredMatches = {}
    /\ ~hasAppliedFilters
    /\ displayMatches = matchHistory

\* Clear Filters has run on an applied filter for a winner, with matches in
\* the history.
C17_Witness ==
  /\ done.kind = "clear"
  /\ done.applied
  /\ matchHistory # {}
  /\ filters.winnerId = 0

\* C18 (as claimed): when loadData finishes, a failed players fetch has its
\* error displayed; otherwise a failed characters fetch has; otherwise a
\* failed recent-matches fetch has.
C18_FirstErrorWins ==
  [][\A ok \in BOOLEAN : LoadMatchesDone(ok) =>
       /\ load.playersError => error' = "players"
       /\ (~load.playersError /\ characters = "default") => error' = "characters"
       /\ (~load.playersError /\ characters # "default" /\ ~ok) =>
            error' = "matches"]_vars

\* C19: the step in which a mutating command learns that its request failed
\* sets the error banner to that failure and leaves the player list, the match
\* history, the filtered list and the form fields as they were; the command
\* ends there, having issued no refetch.
C19_FailureFrame ==
  [][(done'.kind \in {"record", "add", "annul"} /\ ~done'.ok) =>
       /\ error' = done'.kind
       /\ players' = players
       /\ matchHistory' = matchHistory
       /\ filteredMatches' = filteredMatches
       /\ formVars' = formVars
       /\ ~done'.refM /\ ~done'.refP
       /\ \E s \in Slots :
            /\ procs[s].kind = done'.kind /\ procs[s].pc = "post"
            /\ procs' = [procs EXCEPT ![s] = Idle]]_vars

\* An addPlayer request has just failed with the name still in the form.
C19_Witness ==
  /\ done.kind = "add"
  /\ ~done.ok
  /\ error = "add"
  /\ newPlayerName # ""

\* What a service call handed back: a success payload, an error string.  null
\* is the success payload of recordMatch and annulMatch.
HasPayload(c) ==
  CASE c.fn \in {"recordMatch", "annulMatch"} -> c.ret = "null"
    [] c.fn = "login" -> c.ret = "session"
    [] c.fn \in {"getRecentMatches", "filterMatches"} -> c.ret.ok
    [] c.fn = "fetchPlayers" -> c.ret.data # NoPlayers
    [] c.fn = "fetchCharacters" -> c.ret.data \in {"server", "default"}
    [] OTHER -> FALSE

HasError(c) ==
  CASE c.fn \in {"recordMatch", "annulMatch"} ->
         c.ret \in {"Invalid match data", "Failed to record match",
                    "Failed to annul match"}
    [] c.fn = "login" -> c.ret = "error"
    [] c.fn \in {"getRecentMatches", "filterMatches"} -> ~c.ret.ok
    [] c.fn \in {"fetchPlayers", "fetchCharacters"} -> c.ret.error # "none"
    [] OTHER -> FALSE

\* C21 (as claimed): every service operation returns either a success payload
\* or an error string, never both.
C21_PayloadOrError ==
  call.fn # "none" => (HasPayload(call) # HasError(call))

\* C21 (amended): every service operation returns; login, recordMatch,
\* getRecentMatches, filterMatches and annulMatch return either a success
\* payload or an error string, fetchPlayers and fetchCharacters return a
\* list in every case, with an error string exactly when the fetch failed.
C21_Returns ==
  /\ call.fn \in {"login", "recordMatch", "getRecentMatches", "filterMatches",
                  "annulMatch"} =>
       (HasPayload(call) # HasError(call))
  /\ call.fn \in {"getRecentMatches", "filterMatches", "annulMatch"} =>
       (HasPayload(call) = call.ok)
  /\ call.fn \in {"fetchPlayers", "fetchCharacters"} =>
       (HasPayload(call) /\ HasError(call) = ~call.ok)

\* annulMatch has failed and returned its error string.
C21_Witness ==
  /\ call.fn = "annulMatch"
  /\ ~call.ok
  /\ HasError(call)

\* C25 (as claimed): the query of filterMatches holds a parameter for a field
\* exactly when the field is defined in the filter, with the field's value;
\* the call returns the list on success and an error on failure.
C25_QueryOfDefined ==
  call.fn = "filterMatches" =>
    /\ call.query = UNION {{[name |-> n, value |-> v] : v \in call.f[n]} :
                             n \in FilterFields}
    /\ call.ret.ok = call.ok

\* C25 (amended): the query of filterMatches holds a parameter only for a
\* field defined in the filter, with the field's value: for minEloChange
\* whenever it is defined, 0 included, for winnerId, limit and offset when
\* defined and neither '' nor 0; the call returns the list on success and
\* an error on failure.
C25_QueryOfTruthy ==
  call.fn = "filterMatches" =>
    /\ \A p \in call.query : p.value \in call.f[p.name]
    /\ \A n \in FilterFields : \A v \in call.f[n] :
         ([name |-> n, value |-> v] \in call.query) =
           (n = "minEloChange" \/ v # 0)
    /\ call.ret.ok = call.ok

\* filterMatches was called with minEloChange 0 and offset 0, both defined.
C25_Witness ==
  /\ call.fn = "filterMatches"
  /\ call.f.minEloChange = {0}
  /\ call.f.offset = {0}
  /\ call.f.winnerId = {1}
  /\ call.ok

\* C22 (as claimed): the error of a failed command stays on the banner until
\* a later command succeeds, and that success clears it: when a mutating
\* command has completed successfully, the banner holds no command's failure.
C22_SuccessClearsError ==
  (done.kind \in {"record", "add", "annul"} /\ done.ok) =>
    error \notin {"record", "add", "annul"}

\* C23: a click on the header of the active sort column flips the direction
\* between ascending and descending and keeps the column; a click on another
\* header makes that column the sort column with the direction descending;
\* no other state of the view changes.
C23_HandleSort ==
  [][\A column \in SortColumns : HandleSort(column) =>
       /\ IF sortBy = column
          THEN /\ sortBy' = sortBy
               /\ sortDirection' # sortDirection
               /\ sortDirection' \in {"asc", "desc"}
          ELSE /\ sortBy' = column
               /\ sortDirection' = "desc"
       /\ UNCHANGED <<players, characters, error, matchHistory, filterVars,
                      formVars, load, isLoggedIn, authError>>]_vars

\* The ranking is sorted ascending by a column and another header was
\* clicked.
C23_Witness ==
  /\ sortBy = "wins"
  /\ sortDirection = "desc"
  /\ call.fn = "sortedPlayers"
  /\ call.sortBy = "elo"
  /\ call.sortDirection = "asc"

\* C24: sortedPlayers holds exactly the players of the list, ordered by the
\* numeric value of the sort column in the sort direction (ELO 1500, 1600,
\* 1400 descending gives 1600, 1500, 1400); sorting the sorted list again
\* returns it unchanged; the stored list is left as it was.
C24_SortedPlayers ==
  call.fn = "sortedPlayers" =>
    LET list == call.players
        out == call.ret
        by == call.sortBy
    IN /\ Len(out) = Len(list)
       /\ \A i \in 1..Len(list) :
            Cardinality({j \in 1..Len(out) : out[j] = list[i]}) = 1
       /\ \A i, j \in 1..Len(out) :
            i < j => IF call.sortDirection = "asc"
                     THEN out[i][by] <= out[j][by]
                     ELSE out[i][by] >= out[j][by]
       /\ ([i \in 1..Len(list) |-> list[i].elo] = <<1500, 1600, 1400>>
             /\ by = "elo" /\ call.sortDirection = "desc") =>
            [i \in 1..Len(out) |-> out[i].elo] = <<1600, 1500, 1400>>
       /\ SortedPlayers(out, by, call.sortDirection).sortedPlayers = out
       /\ call.after = list

\* The list with ELO 1500, 1600, 1400 was sorted by ELO, descending.
C24_Witness ==
  /\ call.fn = "sortedPlayers"
  /\ Len(call.players) = 3
  /\ [i \in 1..3 |-> call.players[i].elo] = <<1500, 1600, 1400>>
  /\ call.sortBy = "elo"
  /\ call.sortDirection = "desc"
  /\ call.ret # call.players

\* The token key and the expiry key are both present or both absent, and each
\* holds at most one value.
Paired(ls) ==
  /\ (ls.auth_token = {}) = (ls.token_expiration = {})
  /\ Cardinality(ls.auth_token) <= 1
  /\ Cardinality(ls.token_expiration) <= 1

\* C26: in every reachable state, and in the storage every login() and every
\* isAuthenticated() leaves, the token key is present exactly when the expiry
\* key is, and at most one session is stored.
C26_KeysPaired ==
  /\ Paired(localStorage)
  /\ loginCall.at >= 0 => Paired(loginCall.post)
  /\ authCall.at >= 0 => Paired(authCall.post)

\* A login on an empty storage has stored a session, and a later logout has
\* removed it.
C26_Witness ==
  /\ localStorage = EmptyStorage
  /\ nextSession > 1
  /\ ~isLoggedIn
  /\ phase = "mounted"

\* A mutating request leaves with the Authorization header of the stored
\* session, which has not expired.
SentAuthorized(s) ==
  /\ procs[s].kind = "idle"
  /\ procs'[s].kind \in {"record", "annul"}
  /\ procs'[s].auth # {}
  /\ procs'[s].auth = localStorage.auth_token
  /\ ~IsTokenExpired(localStorage, now)

\* C27 (as claimed): a mutating command, here recordMatch, is started only
\* while isLoggedIn is true, and the request it sends carries the
\* Authorization bearer header of a stored session that has not expired when
\* the request is sent.
C27_AuthorizedMutation ==
  [][\A accept \in BOOLEAN : RecordClick(accept) =>
       (isLoggedIn /\ \E s \in Slots : SentAuthorized(s))]_vars

\* C28 (as claimed): in every state, those between the steps of
\* handleRecordMatch included, the player list shown with a match this client
\* recorded was fetched from the server after that match was recorded.
C28_PlayersNotStale ==
  phase = "mounted" =>
    \A m \in server.matches :
      m.id \in displayMatches =>
        (players.from = "server" /\ players.ver >= m.ver)

\* C29 (as claimed): the filtered list shown is the result for the filter
\* values of the last Apply: when handleAnnulMatch replaces the filtered list
\* after a draft was edited, it replaces it with the result for the applied
\* values, not with the result for the draft.
C29_AnnulKeepsApplied ==
  [][\A s \in Slots :
       (AnnulFiltered(s, TRUE) /\ phase = "mounted") =>
         \A f \in filterLog.applied :
           filteredMatches' = FilterMatches(server, f, TRUE).ids]_vars

\* C30 (as claimed): once Clear has run and until Apply is clicked again,
\* hasAppliedFilters is false, the filtered list is empty and the unfiltered
\* history is what is displayed, whatever query completes in between; and at
\* most one filter query is in flight.
C30_ClearHolds ==
  /\ (phase = "mounted" /\ filterLog.cleared) =>
       /\ ~hasAppliedFilters
       /\ filteredMatches = {}
       /\ displayMatches = matchHistory
  /\ Cardinality({s \in Slots : procs[s].kind = "apply"}) <= 1

\* C31: recordMatch called with three non-empty identifiers and a winner that
\* is neither player is not rejected: it sends a request that names that
\* winner and names player 2 as the loser.
C31_OutsideWinner ==
  (/\ call.fn = "recordMatch"
   /\ call.p1 # 0 /\ call.p2 # 0 /\ call.w # 0
   /\ call.w \notin {call.p1, call.p2}) =>
    /\ call.ret # "Invalid match data"
    /\ call.request =
         {[playerAId |-> call.w, playerBId |-> call.p2, winnerId |-> call.w]}

\* recordMatch(1, 2, 3) has sent a request with winner 3 and loser 2.
C31_Witness ==
  /\ call.fn = "recordMatch"
  /\ call.p1 = 1 /\ call.p2 = 2 /\ call.w = 3
  /\ call.ret = "null"
  /\ \E r \in call.request : r.winnerId = 3 /\ r.playerBId = 2

\* C32 (as claimed): a one-shot expiry timer ends no session but the one it
\* was scheduled for: when it fires while the session of a later login is
\* stored and has not expired, that session stays stored and isLoggedIn stays
\* as it is.
C32_TimerOwnSession ==
  [][\A tm \in timers :
       (/\ TimerFire(tm)
        /\ localStorage.auth_token # {}
        /\ localStorage.auth_token # {tm.token}
        /\ ~IsTokenExpired(localStorage, now)) =>
         (localStorage' = localStorage /\ isLoggedIn' = isLoggedIn)]_vars

\* C33 (as claimed): the session-expired notice is set only while a user is
\* logged in: after a logout, or when nobody was logged in, no timer and no
\* poll tick sets it.
C33_NoticeWhileLoggedIn ==
  [][noticeCount' > noticeCount => isLoggedIn]_vars

\* C34 (as claimed): whatever was selected in the Record Match form, the
\* match-creation request App sends never names the same player as winner
\* and as loser.
C34_WinnerIsNotLoser ==
  [][\A accept \in BOOLEAN : RecordClick(accept) =>
       \A s \in Slots : \A r \in procs'[s].req :
         r.winnerId # r.playerBId]_vars

====
